---- MODULE Spec2Model ----
(***************************************************************************)
(* Model of kms.Join (src/kms/cluster.go): discovery of an existing        *)
(* multi-node cluster among conf.Endpoints, fallback election of the       *)
(* first endpoint, and convergence by AddNode calls.                       *)
(*                                                                         *)
(* A Go string is modelled as a sequence of tokens: the token Scheme       *)
(* stands for the characters "https://", every other token for a host      *)
(* name.  strings.TrimPrefix then removes one leading Scheme token.        *)
(***************************************************************************)
EXTENDS Integers, Sequences, FiniteSets, TLC

\* ---------------------------------------------------------------- bounds
\* longest conf.Endpoints list explored
MaxEndpoints == 3
\* most nodes (up + down) one ClusterStatus response reports
MaxNodes == 2

\* ------------------------------------------------------------- constants
Scheme == "https://"

HostNames == {"a", "b", "c"}

\* the host names that also occur written with the scheme prefix
SchemeHosts == {"a"}

\* the strings the model draws endpoints and reported hosts from:
\* "a", "b", "c" and "https://a"
Strings == {<<h>> : h \in HostNames} \cup {<<Scheme, h>> : h \in SchemeHosts}

SeqsUpTo(S, n) == UNION {[1..k -> S] : k \in 0..n}

EndpointLists == SeqsUpTo(Strings, MaxEndpoints)

\* a ClusterStatusResponse: NodesUp ([]node, reduced to node.Host) and
\* NodesDown ([]string)
Responses ==
    {r \in [NodesUp : SeqsUpTo(Strings, MaxNodes), NodesDown : SeqsUpTo(Strings, MaxNodes)] :
        Len(r.NodesUp) + Len(r.NodesDown) <= MaxNodes}

\* errors a call can return
ErrNewClient == "ErrNewClient"
ErrNetwork == "ErrNetwork"
ErrCanceled == "ErrCanceled"
Nil == "nil"
Running == "running"

\* --------------------------------------------------------- pure helpers
Range(s) == {s[k] : k \in 1..Len(s)}

\* strings.TrimPrefix(s, Scheme)
TrimPrefix(s) == IF Len(s) >= 1 /\ s[1] = Scheme THEN Tail(s) ELSE s

\* mutant of IsTrivial: only the empty list returns at once
IsTrivialEmpty(eps) == Len(eps) < 1

\* line 25: len(conf.Endpoints) <= 1
IsTrivial(eps) == Len(eps) <= 1

\* for _, node := range list { clusterNodes[node] = struct{}{} }
RECURSIVE InsertAll(_, _)
InsertAll(nodes, list) ==
    IF list = <<>> THEN nodes
    ELSE InsertAll(nodes \cup {Head(list)}, Tail(list))

\* line 54: len(status.NodesUp)+len(status.NodesDown) == 1
IsStandalone(st) == Len(st.NodesUp) + Len(st.NodesDown) = 1

\* mutant of RecordCluster: the loop over NodesDown is missing
RecordClusterUpOnly(nodes, st) == InsertAll(nodes, st.NodesUp)

\* lines 58-63: both loops over the status
RecordCluster(nodes, st) == InsertAll(InsertAll(nodes, st.NodesUp), st.NodesDown)

\* mutant of Elected: the last endpoint is elected instead of the first
ElectedLast(nodes, eps) ==
    IF Cardinality(nodes) = 0 THEN {TrimPrefix(eps[Len(eps)])} ELSE nodes

\* lines 69-71: the membership after the fallback election
Elected(nodes, eps) ==
    IF Cardinality(nodes) = 0 THEN {TrimPrefix(eps[1])} ELSE nodes

\* slices.Collect(maps.Keys(m)): the keys in an unspecified order
Collect(m) == {s \in [1..Cardinality(m) -> m] : Range(s) = m}

\* mutant of NeedsJoin: the lookup uses the endpoint as configured, before
\* the scheme prefix is stripped
NeedsJoinRaw(nodes, endpoint) == endpoint \notin nodes

\* lines 75-78: the endpoint is not a key of clusterNodes
NeedsJoin(nodes, endpoint) == TrimPrefix(endpoint) \notin nodes

\* the error a client call returns, if it returns one: a call under a
\* cancelled context fails, any other call may fail on the network
CallErrors(cancelled) == IF cancelled THEN {ErrCanceled} ELSE {ErrNetwork}

\* whether a client call may succeed
CallMaySucceed(cancelled) == ~cancelled

\* history entry of a ClusterStatus call that returned st: the routing at
\* the call, the number of nodes reported and, when the status is not that
\* of a single node, the hosts reported (Join never reads the one host of a
\* standalone status)
StatusOk(hosts, st) ==
    [hosts |-> hosts, err |-> Nil,
     n |-> Len(st.NodesUp) + Len(st.NodesDown),
     nodes |-> IF Len(st.NodesUp) + Len(st.NodesDown) = 1 THEN {}
               ELSE Range(st.NodesUp) \cup Range(st.NodesDown)]

\* history entry of a ClusterStatus call that failed
StatusErr(hosts, err) == [hosts |-> hosts, err |-> err, n |-> -1, nodes |-> {}]

VARIABLES
    endpoints,      \* conf.Endpoints
    ctxDone,        \* ctx has been cancelled
    pc,             \* position in Join
    client,         \* outcome of NewClient: "none" before it, "ok", "failed"
    lbHosts,        \* client.lb.Hosts
    i,              \* index of the current range loop (1-based)
    clusterNodes,   \* the clusterNodes map (its key set)
    statusCalls,    \* history: ClusterStatus calls issued
    addCalls,       \* history: AddNode calls issued
    result          \* Join's return value

vars == <<endpoints, ctxDone, pc, client, lbHosts, i, clusterNodes,
          statusCalls, addCalls, result>>

Init ==
    /\ endpoints \in EndpointLists
    /\ ctxDone = FALSE
    /\ pc = "start"
    /\ client = "none"
    /\ lbHosts = <<>>
    /\ i = 1
    /\ clusterNodes = {}
    /\ statusCalls = <<>>
    /\ addCalls = <<>>
    /\ result = Running

\* the caller's context is cancelled before Join or while it runs
Cancel ==
    /\ pc # "done"
    /\ ~ctxDone
    /\ ctxDone' = TRUE
    /\ UNCHANGED <<endpoints, pc, client, lbHosts, i, clusterNodes,
                   statusCalls, addCalls, result>>

\* lines 25-27
JoinTrivial ==
    /\ pc = "start"
    /\ IsTrivial(endpoints)
    /\ pc' = "done"
    /\ result' = Nil
    /\ UNCHANGED <<endpoints, ctxDone, client, lbHosts, i, clusterNodes,
                   statusCalls, addCalls>>

\* mutant of NewClientFail: the error of NewClient is dropped
NewClientFailIgnored ==
    /\ pc = "start"
    /\ ~IsTrivial(endpoints)
    /\ client' = "failed"
    /\ pc' = "discover"
    /\ i' = 1
    /\ clusterNodes' = {}
    /\ UNCHANGED <<endpoints, ctxDone, lbHosts, statusCalls, addCalls, result>>

\* lines 30-33, NewClient fails
NewClientFail ==
    /\ pc = "start"
    /\ ~IsTrivial(endpoints)
    /\ client' = "failed"
    /\ pc' = "done"
    /\ result' = ErrNewClient
    /\ UNCHANGED <<endpoints, ctxDone, lbHosts, i, clusterNodes,
                   statusCalls, addCalls>>

\* lines 30-45, NewClient succeeds
NewClientOk ==
    /\ pc = "start"
    /\ ~IsTrivial(endpoints)
    /\ client' = "ok"
    /\ pc' = "discover"
    /\ i' = 1
    /\ clusterNodes' = {}
    /\ UNCHANGED <<endpoints, ctxDone, lbHosts, statusCalls, addCalls, result>>

\* mutant of DiscoverFail: the error is skipped like a standalone status
DiscoverFailIgnored ==
    /\ pc = "discover"
    /\ i <= Len(endpoints)
    /\ LET endpoint == TrimPrefix(endpoints[i]) IN
       \E err \in CallErrors(ctxDone) :
          /\ lbHosts' = <<endpoint>>
          /\ statusCalls' = Append(statusCalls, StatusErr(lbHosts', err))
          /\ i' = i + 1
          /\ pc' = IF i = Len(endpoints) THEN "elect" ELSE "discover"
    /\ UNCHANGED <<endpoints, ctxDone, client, clusterNodes, addCalls, result>>

\* mutant of DiscoverFail: a first failed ClusterStatus call is retried
DiscoverFailRetryOnce ==
    /\ pc = "discover"
    /\ i <= Len(endpoints)
    /\ LET endpoint == TrimPrefix(endpoints[i])
           failedBefore == \E k \in 1..Len(statusCalls) : statusCalls[k].err # Nil
       IN
       \E err \in CallErrors(ctxDone) :
          /\ lbHosts' = <<endpoint>>
          /\ statusCalls' = Append(statusCalls, StatusErr(lbHosts', err))
          /\ result' = IF failedBefore THEN err ELSE result
          /\ pc' = IF failedBefore THEN "done" ELSE pc
    /\ UNCHANGED <<endpoints, ctxDone, client, i, clusterNodes, addCalls>>

\* lines 46-53: one iteration of the discovery loop, ClusterStatus fails
DiscoverFail ==
    /\ pc = "discover"
    /\ i <= Len(endpoints)
    /\ LET endpoint == TrimPrefix(endpoints[i]) IN
       \E err \in CallErrors(ctxDone) :
          /\ lbHosts' = <<endpoint>>
          /\ statusCalls' = Append(statusCalls, StatusErr(lbHosts', err))
          /\ result' = err
          /\ pc' = "done"
    /\ UNCHANGED <<endpoints, ctxDone, client, i, clusterNodes, addCalls>>

\* lines 46-56: one iteration, the endpoint reports exactly one node; after
\* the last endpoint the loop ends
DiscoverStandalone ==
    /\ pc = "discover"
    /\ i <= Len(endpoints)
    /\ CallMaySucceed(ctxDone)
    /\ LET endpoint == TrimPrefix(endpoints[i]) IN
       \E st \in Responses :
          /\ IsStandalone(st)
          /\ lbHosts' = <<endpoint>>
          /\ statusCalls' = Append(statusCalls, StatusOk(lbHosts', st))
          /\ i' = i + 1
          /\ pc' = IF i = Len(endpoints) THEN "elect" ELSE "discover"
    /\ UNCHANGED <<endpoints, ctxDone, client, clusterNodes, addCalls, result>>

\* mutant of DiscoverCluster: the loop goes on after a cluster was found
DiscoverClusterNoBreak ==
    /\ pc = "discover"
    /\ i <= Len(endpoints)
    /\ CallMaySucceed(ctxDone)
    /\ LET endpoint == TrimPrefix(endpoints[i]) IN
       \E st \in Responses :
          /\ ~IsStandalone(st)
          /\ lbHosts' = <<endpoint>>
          /\ statusCalls' = Append(statusCalls, StatusOk(lbHosts', st))
          /\ clusterNodes' = RecordCluster(clusterNodes, st)
          /\ i' = i + 1
          /\ pc' = IF i = Len(endpoints) THEN "elect" ELSE "discover"
    /\ UNCHANGED <<endpoints, ctxDone, client, addCalls, result>>

\* lines 46-65: one iteration, the endpoint does not report exactly one
\* node: the reported hosts are recorded and the loop ends
DiscoverCluster ==
    /\ pc = "discover"
    /\ i <= Len(endpoints)
    /\ CallMaySucceed(ctxDone)
    /\ LET endpoint == TrimPrefix(endpoints[i]) IN
       \E st \in Responses :
          /\ ~IsStandalone(st)
          /\ lbHosts' = <<endpoint>>
          /\ statusCalls' = Append(statusCalls, StatusOk(lbHosts', st))
          /\ clusterNodes' = RecordCluster(clusterNodes, st)
          /\ pc' = "elect"
    /\ UNCHANGED <<endpoints, ctxDone, client, i, addCalls, result>>

\* mutant of Elect: the routing update of line 72 is missing
ElectNoRouting ==
    /\ pc = "elect"
    /\ clusterNodes' = Elected(clusterNodes, endpoints)
    /\ i' = 1
    /\ pc' = "converge"
    /\ UNCHANGED <<endpoints, ctxDone, client, lbHosts, statusCalls, addCalls, result>>

\* lines 69-72: fallback election and routing update
Elect ==
    /\ pc = "elect"
    /\ clusterNodes' = Elected(clusterNodes, endpoints)
    /\ lbHosts' \in Collect(clusterNodes')
    /\ i' = 1
    /\ pc' = "converge"
    /\ UNCHANGED <<endpoints, ctxDone, client, statusCalls, addCalls, result>>

\* lines 74-78: one iteration of the convergence loop, the endpoint is a
\* member already
ConvergeSkip ==
    /\ pc = "converge"
    /\ i <= Len(endpoints)
    /\ ~NeedsJoin(clusterNodes, endpoints[i])
    /\ i' = i + 1
    /\ UNCHANGED <<endpoints, ctxDone, pc, client, lbHosts, clusterNodes,
                   statusCalls, addCalls, result>>

\* mutant of ConvergeAdd: the status is queried again after each join
ConvergeAddThenStatus ==
    /\ pc = "converge"
    /\ i <= Len(endpoints)
    /\ NeedsJoin(clusterNodes, endpoints[i])
    /\ CallMaySucceed(ctxDone)
    /\ addCalls' = Append(addCalls,
            [host |-> TrimPrefix(endpoints[i]), hosts |-> lbHosts, err |-> Nil])
    /\ \E st \in Responses : statusCalls' = Append(statusCalls, StatusOk(lbHosts, st))
    /\ i' = i + 1
    /\ UNCHANGED <<endpoints, ctxDone, pc, client, lbHosts, clusterNodes, result>>

\* mutant of ConvergeAdd: the joined host is entered into clusterNodes
ConvergeAddRecorded ==
    /\ pc = "converge"
    /\ i <= Len(endpoints)
    /\ NeedsJoin(clusterNodes, endpoints[i])
    /\ CallMaySucceed(ctxDone)
    /\ addCalls' = Append(addCalls,
            [host |-> TrimPrefix(endpoints[i]), hosts |-> lbHosts, err |-> Nil])
    /\ clusterNodes' = clusterNodes \cup {TrimPrefix(endpoints[i])}
    /\ i' = i + 1
    /\ UNCHANGED <<endpoints, ctxDone, pc, client, lbHosts, statusCalls, result>>

\* mutant of ConvergeAdd: the request names the endpoint as configured
ConvergeAddRaw ==
    /\ pc = "converge"
    /\ i <= Len(endpoints)
    /\ NeedsJoin(clusterNodes, endpoints[i])
    /\ CallMaySucceed(ctxDone)
    /\ addCalls' = Append(addCalls,
            [host |-> endpoints[i], hosts |-> lbHosts, err |-> Nil])
    /\ i' = i + 1
    /\ UNCHANGED <<endpoints, ctxDone, pc, client, lbHosts, clusterNodes,
                   statusCalls, result>>

\* lines 74-82: one iteration, AddNode succeeds
ConvergeAdd ==
    /\ pc = "converge"
    /\ i <= Len(endpoints)
    /\ NeedsJoin(clusterNodes, endpoints[i])
    /\ CallMaySucceed(ctxDone)
    /\ addCalls' = Append(addCalls,
            [host |-> TrimPrefix(endpoints[i]), hosts |-> lbHosts, err |-> Nil])
    /\ i' = i + 1
    /\ UNCHANGED <<endpoints, ctxDone, pc, client, lbHosts, clusterNodes,
                   statusCalls, result>>

\* mutant of ConvergeAddFail: the error is dropped and the loop goes on
ConvergeAddFailIgnored ==
    /\ pc = "converge"
    /\ i <= Len(endpoints)
    /\ NeedsJoin(clusterNodes, endpoints[i])
    /\ \E err \in CallErrors(ctxDone) :
          addCalls' = Append(addCalls,
                [host |-> TrimPrefix(endpoints[i]), hosts |-> lbHosts, err |-> err])
    /\ i' = i + 1
    /\ UNCHANGED <<endpoints, ctxDone, pc, client, lbHosts, clusterNodes,
                   statusCalls, result>>

\* lines 74-81: one iteration, AddNode fails
ConvergeAddFail ==
    /\ pc = "converge"
    /\ i <= Len(endpoints)
    /\ NeedsJoin(clusterNodes, endpoints[i])
    /\ \E err \in CallErrors(ctxDone) :
          /\ addCalls' = Append(addCalls,
                [host |-> TrimPrefix(endpoints[i]), hosts |-> lbHosts, err |-> err])
          /\ result' = err
    /\ pc' = "done"
    /\ UNCHANGED <<endpoints, ctxDone, client, lbHosts, i, clusterNodes, statusCalls>>

\* mutant of JoinReturn: the convergence loop stops one endpoint early
JoinReturnEarly ==
    /\ pc = "converge"
    /\ i >= Len(endpoints)
    /\ pc' = "done"
    /\ result' = Nil
    /\ UNCHANGED <<endpoints, ctxDone, client, lbHosts, i, clusterNodes,
                   statusCalls, addCalls>>

\* line 83
JoinReturn ==
    /\ pc = "converge"
    /\ i > Len(endpoints)
    /\ pc' = "done"
    /\ result' = Nil
    /\ UNCHANGED <<endpoints, ctxDone, client, lbHosts, i, clusterNodes,
                   statusCalls, addCalls>>

Next ==
    \/ Cancel
    \/ JoinTrivial
    \/ NewClientFail
    \/ NewClientOk
    \/ DiscoverFail
    \/ DiscoverStandalone
    \/ DiscoverCluster
    \/ Elect
    \/ ConvergeSkip
    \/ ConvergeAdd
    \/ ConvergeAddFail
    \/ JoinReturn

Spec == Init /\ [][Next]_vars

\* a step of Join itself: every action but the cancellation of the context
JoinStep ==
    \/ JoinTrivial
    \/ NewClientFail
    \/ NewClientOk
    \/ DiscoverFail
    \/ DiscoverStandalone
    \/ DiscoverCluster
    \/ Elect
    \/ ConvergeSkip
    \/ ConvergeAdd
    \/ ConvergeAddFail
    \/ JoinReturn

\* Join is one sequential routine and every client call returns: while
\* Join can take a step, it takes one
FairSpec == Spec /\ WF_vars(JoinStep)

TypeOK ==
    /\ endpoints \in EndpointLists
    /\ pc \in {"start", "discover", "elect", "converge", "done"}
    /\ result \in {Running, Nil, ErrNewClient, ErrNetwork, ErrCanceled}

\* ------------------------------------------------------------ the claims
\* the normalized host of the k-th endpoint
Norm(k) == TrimPrefix(endpoints[k])

\* the normalized endpoints, in list order
NormEndpoints == [k \in 1..Len(endpoints) |-> TrimPrefix(endpoints[k])]

\* the hosts named by the AddNode calls, in call order
AddHosts == [m \in 1..Len(addCalls) |-> addCalls[m].host]

\* the number of AddNode calls that name host h
AddCount(h) == Cardinality({m \in 1..Len(addCalls) : addCalls[m].host = h})

\* every endpoint was probed and every probe reported exactly one node
AllStandalone ==
    /\ Len(statusCalls) = Len(endpoints)
    /\ \A k \in 1..Len(statusCalls) : statusCalls[k].err = Nil /\ statusCalls[k].n = 1

Returned == pc = "done"

\* C1: when Join returns nil on a list of two or more endpoints, every
\* endpoint is, by its normalized host, in the membership set or has been
\* named in an AddNode call of this run.
C1_MemberOrAdded ==
    (Returned /\ result = Nil /\ Len(endpoints) >= 2) =>
        \A k \in 1..Len(endpoints) :
            \/ Norm(k) \in clusterNodes
            \/ \E m \in 1..Len(addCalls) : addCalls[m].host = Norm(k)

\* a successful run over three endpoints with a member and a joined node
C1_Witness ==
    /\ Returned /\ result = Nil /\ Len(endpoints) = 3
    /\ \E k \in 1..Len(endpoints) : Norm(k) \in clusterNodes
    /\ \E k \in 1..Len(endpoints) : Norm(k) \notin clusterNodes
    /\ Len(addCalls) >= 1

\* C2: no AddNode call names a host of the membership set; when the first
\* endpoint was elected as the seed, no AddNode call names it.
C2_NoAddForMember ==
    \A m \in 1..Len(addCalls) :
        /\ addCalls[m].host \notin clusterNodes
        /\ AllStandalone => addCalls[m].host # Norm(1)

\* the seed was elected, it is listed with and without the scheme prefix,
\* and another endpoint has been told to join
C2_Witness ==
    /\ AllStandalone
    /\ Len(endpoints) = 3
    /\ endpoints[1] # endpoints[3] /\ Norm(1) = Norm(3)
    /\ Returned /\ result = Nil
    /\ Len(addCalls) = 1

\* C3 (as claimed): in a successful Join that built a membership set (two
\* or more endpoints), every endpoint whose normalized host is absent from
\* the set is named by exactly one AddNode call, also when the list repeats
\* an endpoint.
C3_ExactlyOneAdd ==
    (Returned /\ result = Nil /\ Len(endpoints) >= 2) =>
        \A k \in 1..Len(endpoints) :
            Norm(k) \notin clusterNodes => AddCount(Norm(k)) = 1

\* s is an initial segment of t
IsPrefix(s, t) == Len(s) <= Len(t) /\ \A m \in 1..Len(s) : s[m] = t[m]

\* the normalized endpoints that are not in nodes, in list order
NonMembers(nodes) ==
    LET Outside(h) == h \notin nodes IN SelectSeq(NormEndpoints, Outside)

\* the k-th ClusterStatus call is the first to report more than one node
FirstCluster(k) ==
    /\ statusCalls[k].err = Nil /\ statusCalls[k].n > 1
    /\ \A j \in 1..(k - 1) : statusCalls[j].err = Nil /\ statusCalls[j].n = 1

\* C4: when the k-th endpoint is the first to report more than one node and
\* every endpoint before it reported one, that call probed endpoint k and is
\* the last ClusterStatus call, the membership set is exactly the hosts it
\* reported, and the AddNode calls are those of the listed endpoints outside
\* the reported hosts, in list order: nothing an endpoint after k could
\* report enters into them.
C4_FirstClusterWins ==
    \A k \in 1..Len(statusCalls) :
        FirstCluster(k) =>
            /\ k = Len(statusCalls)
            /\ statusCalls[k].hosts = <<Norm(k)>>
            /\ clusterNodes = statusCalls[k].nodes
            /\ IsPrefix(AddHosts, NonMembers(statusCalls[k].nodes))
            /\ (Returned /\ result = Nil) => AddHosts = NonMembers(statusCalls[k].nodes)

\* the second of three endpoints reported a cluster, the third was told to
\* join it
C4_Witness ==
    /\ Len(endpoints) = 3
    /\ Len(statusCalls) = 2 /\ FirstCluster(2)
    /\ Returned /\ result = Nil
    /\ Len(addCalls) >= 1
    /\ addCalls[Len(addCalls)].host = Norm(3)

\* every ClusterStatus call so far succeeded and reported exactly one node
NoClusterSeen ==
    \A k \in 1..Len(statusCalls) : statusCalls[k].err = Nil /\ statusCalls[k].n = 1

\* C5: on a list of two or more endpoints, while every status reports
\* exactly one node and no call fails, the k-th ClusterStatus call probes
\* the k-th endpoint; discovery ends only when each endpoint has been probed
\* once, and the membership set that discovery and election leave is the
\* normalized first endpoint alone.
C5_AllStandaloneElectsFirst ==
    (client = "ok" /\ Len(endpoints) >= 2 /\ NoClusterSeen) =>
        /\ Len(statusCalls) <= Len(endpoints)
        /\ \A k \in 1..Len(statusCalls) : statusCalls[k].hosts = <<Norm(k)>>
        /\ pc # "discover" => Len(statusCalls) = Len(endpoints)
        /\ pc \in {"converge", "done"} => clusterNodes = {Norm(1)}

\* three standalone endpoints, the first written with the scheme prefix
C5_Witness ==
    /\ AllStandalone /\ Len(endpoints) = 3
    /\ endpoints[1] # Norm(1)
    /\ Norm(3) # Norm(1)
    /\ Returned /\ result = Nil

\* C6: for a list of at most one endpoint Join issues no ClusterStatus and
\* no AddNode call, builds no client, leaves the routing as it was, can
\* return at once and returns nil.
C6_TrivialNoCalls ==
    Len(endpoints) <= 1 =>
        /\ statusCalls = <<>> /\ addCalls = <<>>
        /\ client = "none" /\ lbHosts = <<>>
        /\ pc = "start" => ENABLED JoinTrivial
        /\ pc \in {"start", "done"}
        /\ Returned => result = Nil

\* Join returned on a one-endpoint list, under a cancelled context
C6_Witness == Returned /\ Len(endpoints) = 1 /\ ctxDone

\* C7: a failed ClusterStatus call, the k-th, probed the k-th endpoint and
\* is the last ClusterStatus call; Join has returned its error; no AddNode
\* call exists and neither the membership set nor the routing moved on.
C7_StatusErrorAborts ==
    \A k \in 1..Len(statusCalls) :
        statusCalls[k].err # Nil =>
            /\ k = Len(statusCalls)
            /\ statusCalls[k].hosts = <<Norm(k)>>
            /\ Returned /\ result = statusCalls[k].err
            /\ addCalls = <<>>
            /\ clusterNodes = {} /\ lbHosts = <<Norm(k)>>

\* the status call to the third endpoint failed
C7_Witness ==
    /\ Len(statusCalls) = 3
    /\ statusCalls[3].err # Nil
    /\ Returned

\* C8: a failed AddNode call, the m-th, is the last AddNode call; Join has
\* returned its error; the m calls issued name the first m non-member
\* endpoints in list order, each once per list entry, and the m-1 before the
\* failed one succeeded.
C8_AddErrorAborts ==
    \A m \in 1..Len(addCalls) :
        addCalls[m].err # Nil =>
            /\ m = Len(addCalls)
            /\ Returned /\ result = addCalls[m].err
            /\ m <= Len(NonMembers(clusterNodes))
            /\ AddHosts = SubSeq(NonMembers(clusterNodes), 1, m)
            /\ \A j \in 1..(m - 1) : addCalls[j].err = Nil

\* the second AddNode call failed after the first succeeded
C8_Witness ==
    /\ Len(endpoints) = 3
    /\ Len(addCalls) = 2
    /\ addCalls[1].err = Nil /\ addCalls[2].err # Nil
    /\ addCalls[1].host # addCalls[2].host
    /\ Returned

\* some ClusterStatus or AddNode call returned an error
CallFailed ==
    \/ \E k \in 1..Len(statusCalls) : statusCalls[k].err # Nil
    \/ \E m \in 1..Len(addCalls) : addCalls[m].err # Nil

\* every non-member endpoint of a list of two or more was issued its
\* AddNode call
FullyConverged == Len(endpoints) >= 2 => AddHosts = NonMembers(clusterNodes)

\* C9 (as claimed): the result is non-nil exactly when a ClusterStatus or
\* AddNode call failed or the context was cancelled; a nil result implies
\* that every non-member endpoint was issued its AddNode call.
C9_NonNilIffCallFailedOrCancelled ==
    Returned =>
        /\ (result # Nil) <=> (CallFailed \/ ctxDone)
        /\ result = Nil => FullyConverged

\* C9 (amended): the result is non-nil exactly when NewClient failed or a
\* ClusterStatus or AddNode call returned an error; a nil result implies
\* that every non-member endpoint was issued its AddNode call.
C9_NonNilIffClientOrCallFailed ==
    Returned =>
        /\ (result # Nil) <=> (client = "failed" \/ CallFailed)
        /\ result = Nil => FullyConverged

\* Join returned nil after an AddNode call although the context was
\* cancelled before it returned
C9_Witness ==
    /\ Returned /\ result = Nil
    /\ ctxDone
    /\ Len(addCalls) >= 1

\* the first probe reported more than one node and every listed endpoint is,
\* by its normalized host, among the hosts it reported
AllInFirstCluster ==
    /\ Len(statusCalls) >= 1
    /\ statusCalls[1].err = Nil /\ statusCalls[1].n > 1
    /\ \A k \in 1..Len(endpoints) : Norm(k) \in statusCalls[1].nodes

Normalized(nodes) == {TrimPrefix(h) : h \in nodes}

\* C11 (as claimed): every host reported by the first status with more than
\* one node is in the membership set with its scheme prefix stripped, and a
\* listed endpoint whose host that status reported, with or without the
\* prefix, is named by no AddNode call.
C11_ReportedHostsNormalized ==
    \A k \in 1..Len(statusCalls) :
        FirstCluster(k) =>
            /\ pc \in {"elect", "converge", "done"} =>
                    Normalized(statusCalls[k].nodes) \subseteq clusterNodes
            /\ \A j \in 1..Len(endpoints) :
                    Norm(j) \in Normalized(statusCalls[k].nodes) => AddCount(Norm(j)) = 0

\* C12 (as claimed): discovery ends with an empty membership set only when
\* every endpoint has been probed and each reported exactly one node,
\* whatever the statuses were.
C12_FallbackOnlyIfAllStandalone ==
    (pc = "elect" /\ clusterNodes = {}) => AllStandalone

\* C13: once an AddNode call has been issued, and in the step that issues
\* the first, no ClusterStatus call is issued.
C13_StatusBeforeAdd ==
    [][(addCalls # <<>> \/ addCalls' # <<>>) => statusCalls' = statusCalls]_vars

\* three probes were followed by two AddNode calls
C13_Witness == Len(statusCalls) = 3 /\ Len(addCalls) = 2

\* C14: every ClusterStatus call, the k-th, was issued with the routing at
\* the normalized k-th endpoint alone; every AddNode call was issued with
\* the routing at the hosts of the membership set, each once.
C14_RoutingAtCalls ==
    /\ \A k \in 1..Len(statusCalls) : statusCalls[k].hosts = <<Norm(k)>>
    /\ \A m \in 1..Len(addCalls) :
          /\ Range(addCalls[m].hosts) = clusterNodes
          /\ Len(addCalls[m].hosts) = Cardinality(clusterNodes)

\* after three standalone probes, the last of another host than the first,
\* an AddNode call was routed to the elected first endpoint
C14_Witness ==
    /\ AllStandalone /\ Len(endpoints) = 3
    /\ Norm(3) # Norm(1)
    /\ Len(addCalls) >= 1
    /\ addCalls[1].hosts = <<Norm(1)>>

\* C15: from the end of the election on, no step changes the membership
\* set, an AddNode call that succeeds or fails included.
C15_MembershipFrozen ==
    [][(pc \in {"converge", "done"}) => (clusterNodes' = clusterNodes)]_vars

\* a successful and then a failed AddNode call left the elected seed as the
\* only member
C15_Witness ==
    /\ Returned
    /\ Len(addCalls) = 2
    /\ addCalls[1].err = Nil /\ addCalls[2].err = ErrCanceled
    /\ clusterNodes = {Norm(1)}

\* with the k-th status the first to report a cluster: the j-th endpoint is
\* listed after the k-th and its host is not among the reported hosts in
\* either written form, as for a node of another cluster; its own status is
\* never drawn, so it may be anything
OtherCluster(k, j) ==
    /\ j \in (k + 1)..Len(endpoints)
    /\ Norm(j) \notin Normalized(statusCalls[k].nodes)

\* an AddNode call names the j-th endpoint and was routed to the hosts the
\* k-th status reported
AddedTo(k, j) ==
    \E m \in 1..Len(addCalls) :
        /\ addCalls[m].host = Norm(j)
        /\ Range(addCalls[m].hosts) = statusCalls[k].nodes

\* C16 (as claimed): when the k-th endpoint is the first to report a
\* cluster, that cluster is the target, no endpoint after k is queried, and
\* when Join has returned every listed endpoint outside the target has been
\* issued an AddNode call against it; Join fails only with the error of an
\* AddNode call.
C16_OtherClusterAllAdded ==
    \A k \in 1..Len(statusCalls) :
        FirstCluster(k) =>
            /\ Len(statusCalls) = k
            /\ clusterNodes = statusCalls[k].nodes
            /\ Returned =>
                  /\ \A j \in 1..Len(endpoints) : OtherCluster(k, j) => AddedTo(k, j)
                  /\ result # Nil =>
                        \E m \in 1..Len(addCalls) : addCalls[m].err = result

\* C16 (amended): when the k-th endpoint is the first to report a cluster,
\* that cluster is the target and no endpoint after k is queried; the
\* listed endpoints outside the target are issued AddNode calls against it
\* only until an AddNode call fails: when Join has returned, such an
\* endpoint was issued its call, or Join failed and no call names it; a
\* non-nil result is the error of the last AddNode call, every call before
\* it having succeeded.
C16_OtherClusterAddedUntilError ==
    \A k \in 1..Len(statusCalls) :
        FirstCluster(k) =>
            /\ Len(statusCalls) = k
            /\ clusterNodes = statusCalls[k].nodes
            /\ Returned =>
                  /\ \A j \in 1..Len(endpoints) :
                        OtherCluster(k, j) =>
                            (AddedTo(k, j) \/ (result # Nil /\ AddCount(Norm(j)) = 0))
                  /\ result # Nil =>
                        /\ addCalls # <<>>
                        /\ addCalls[Len(addCalls)].err = result
                        /\ \A m \in 1..(Len(addCalls) - 1) : addCalls[m].err = Nil

\* the first of three endpoints reported a cluster, the other two are
\* outside it; the AddNode call for the second failed and the third was
\* issued none
C16_Witness ==
    /\ Len(endpoints) = 3
    /\ Len(statusCalls) = 1 /\ FirstCluster(1)
    /\ OtherCluster(1, 2) /\ OtherCluster(1, 3)
    /\ Norm(2) # Norm(3)
    /\ Returned
    /\ Len(addCalls) = 1 /\ addCalls[1].err # Nil /\ addCalls[1].host = Norm(2)

\* s can be obtained from t by dropping entries, the order kept
RECURSIVE IsSubsequence(_, _)
IsSubsequence(s, t) ==
    IF s = <<>> THEN TRUE
    ELSE IF t = <<>> THEN FALSE
    ELSE IF Head(s) = Head(t) THEN IsSubsequence(Tail(s), Tail(t))
    ELSE IsSubsequence(s, Tail(t))

\* C17: the hosts named by the AddNode calls, in call order, are normalized
\* hosts of listed endpoints at increasing list positions; no call names a
\* host written with the scheme prefix or one that is not listed.
C17_AddsInListOrder ==
    /\ IsSubsequence(AddHosts, NormEndpoints)
    /\ \A m \in 1..Len(addCalls) :
          /\ \E k \in 1..Len(endpoints) : addCalls[m].host = TrimPrefix(endpoints[k])
          /\ addCalls[m].host \notin {<<Scheme, h>> : h \in HostNames}

\* the second endpoint, configured with the scheme prefix, and the third
\* were told to join, in that order
C17_Witness ==
    /\ Len(endpoints) = 3
    /\ endpoints[2] # Norm(2) /\ Norm(2) # Norm(3)
    /\ Returned /\ result = Nil
    /\ AddHosts = <<Norm(2), Norm(3)>>

\* no ClusterStatus or AddNode call follows a failed call
NoRetry ==
    /\ \A k \in 1..Len(statusCalls) :
          statusCalls[k].err # Nil => (k = Len(statusCalls) /\ addCalls = <<>>)
    /\ \A m \in 1..Len(addCalls) :
          addCalls[m].err # Nil => m = Len(addCalls)

\* C18: with every client call returning, Join returns; at no time has it
\* issued more ClusterStatus calls or more AddNode calls than there are
\* endpoints, the k-th ClusterStatus call probes the k-th list position, and
\* no call follows a failed call.
C18_TerminatesWithinBounds ==
    /\ <>Returned
    /\ [](/\ Len(statusCalls) <= Len(endpoints)
          /\ Len(addCalls) <= Len(endpoints)
          /\ \A k \in 1..Len(statusCalls) : statusCalls[k].hosts = <<Norm(k)>>
          /\ NoRetry)

\* Join returned after as many ClusterStatus calls and as many AddNode calls
\* as there are endpoints
C18_Witness ==
    /\ Returned
    /\ Len(endpoints) = 3
    /\ Len(statusCalls) = 3 /\ Len(addCalls) = 3
====
